---------------------------- MODULE Spec2Model ----------------------------
(* A model of cargo-apk's build core:                                      *)
(*   - ndk-build/src/util.rs : output_error, the subprocess output capture *)
(*     with its two reader threads and the mutex-protected Output log;     *)
(*   - cargo-apk/src/apk.rs  : ApkBuilder (from_subcommand, check, build,  *)
(*     run, default, min_sdk_version) with manifest defaulting, signing-   *)
(*     key resolution and the device monitor of run.                       *)
(* Every specification shares one set of variables; the variables of the   *)
(* component a specification does not exercise stay at their idle values.  *)
EXTENDS Integers, Sequences, FiniteSets, TLC

(***************************************************************************)
(* Bounds of the model.                                                    *)
(***************************************************************************)
\* longest standard-output payload of the supervised process
MaxOut == 3
\* longest standard-error payload of the supervised process
MaxErr == 3
\* capacity of one OS pipe, in bytes (the kernel's is 64 KiB; scaled down)
PipeCap == 2
\* length of a reader's buffer, `[0u8; 8192]` in the source, scaled down
BufLen == 2
\* longest list of build targets the manifest declares
MaxTargets == 2
\* pidof polls of the first loop of run that are counted one by one
MaxPolls == 3
\* most calls of build on one builder
MaxBuilds == 2

(***************************************************************************)
(* Small helpers.                                                          *)
(***************************************************************************)
Min(a, b) == IF a < b THEN a ELSE b

Max(a, b) == IF a < b THEN b ELSE a

Take(s, n) == SubSeq(s, 1, n)

Drop(s, n) == SubSeq(s, n + 1, Len(s))

IsPrefix(p, s) == Len(p) <= Len(s) /\ Take(s, Len(p)) = p

(***************************************************************************)
(* util.rs: Stream, Output                                                 *)
(***************************************************************************)
Streams == {"Stdout", "Stderr"}

\* the payloads of the supervised process: n distinct ASCII bytes on standard
\* output ('o', 'p', ...); on standard error ASCII bytes ('e', 'g', ...)
\* alternating with the byte 0xFF, which is not valid UTF-8
OutPayload(n) == [i \in 1..n |-> 110 + i]

ErrPayload(n) == [i \in 1..n |-> IF i % 2 = 0 THEN 255 ELSE 100 + i]

RECURSIVE ConcatChunks(_)
ConcatChunks(chunks) ==
    IF chunks = <<>> THEN <<>>
    ELSE Head(chunks).data \o ConcatChunks(Tail(chunks))

OnlyStream(output, stream) == SelectSeq(output, LAMBDA x : x.stream = stream)

\* Output::push
OutputPush(output, stream, data) == Append(output, [stream |-> stream, data |-> data])

\* a stdout() that forgets the filter and concatenates every chunk
OutputStdoutUnfiltered(output) == ConcatChunks(output)

\* Output::stdout: the chunks tagged Stdout, concatenated in log order
OutputStdout(output) == ConcatChunks(OnlyStream(output, "Stdout"))

\* Output::stderr: every chunk of the log, whatever its tag, in log order
OutputStderr(output) == ConcatChunks(output)

\* String::from_utf8_lossy on the model's bytes: ASCII bytes are kept, each
\* 0xFF byte becomes U+FFFD (65533); the text is a sequence of code points
FromUtf8Lossy(bytes) == [i \in 1..Len(bytes) |-> IF bytes[i] = 255 THEN 65533 ELSE bytes[i]]

(***************************************************************************)
(* apk.rs: the values ApkBuilder works on.  An Option is a sequence of at  *)
(* most one element; a string the code edits is a sequence of characters;  *)
(* a path is its components with a flag for an absolute path.              *)
(***************************************************************************)
None == <<>>

Some(x) == <<x>>

Unwrap(o) == o[1]

\* Option::unwrap_or
UnwrapOr(o, default) == IF o = None THEN default ELSE o[1]

\* Option::get_or_insert / get_or_insert_with: the option afterwards
GetOrInsert(o, default) == IF o = None THEN Some(default) ELSE o

\* str::replace('-', "_")
ReplaceHyphens(name) == [i \in 1..Len(name) |-> IF name[i] = "-" THEN "_" ELSE name[i]]

\* Path::join: an absolute argument replaces the base
PathJoin(base, path) ==
    IF path.abs THEN path
    ELSE [abs |-> base.abs, comps |-> base.comps \o path.comps]

\* cargo_subcommand::Profile
ProfileDev == [tag |-> "Dev", name |-> "dev"]

ProfileRelease == [tag |-> "Release", name |-> "release"]

ProfileCustom == [tag |-> "Custom", name |-> "fast-release"]

Profiles == {ProfileDev, ProfileRelease, ProfileCustom}

\* match self.cmd.profile() { Dev => "dev", Release => "release", Custom(c) => c }
ProfileName(profile) ==
    CASE profile.tag = "Dev" -> "dev"
      [] profile.tag = "Release" -> "release"
      [] OTHER -> profile.name

\* format!("CARGO_APK_{}_KEYSTORE", profile_name.to_uppercase().replace('-', "_")),
\* on the profile names of the model
KeystoreEnv(profileName) ==
    CASE profileName = "dev" -> "CARGO_APK_DEV_KEYSTORE"
      [] profileName = "release" -> "CARGO_APK_RELEASE_KEYSTORE"
      [] profileName = "fast-release" -> "CARGO_APK_FAST_RELEASE_KEYSTORE"

\* format!("{}_PASSWORD", keystore_env)
PasswordEnv(profileName) ==
    CASE profileName = "dev" -> "CARGO_APK_DEV_KEYSTORE_PASSWORD"
      [] profileName = "release" -> "CARGO_APK_RELEASE_KEYSTORE_PASSWORD"
      [] profileName = "fast-release" -> "CARGO_APK_FAST_RELEASE_KEYSTORE_PASSWORD"

EnvNames == {KeystoreEnv(p.name) : p \in Profiles} \cup {PasswordEnv(p.name) : p \in Profiles}

\* ndk_build::ndk::DEFAULT_DEV_KEYSTORE_PASSWORD
DEFAULT_DEV_KEYSTORE_PASSWORD == "android"

\* the key Ndk::debug_key() supplies when it can
DebugKey ==
    [path |-> [abs |-> TRUE, comps |-> <<".android", "debug.keystore">>],
     password |-> DEFAULT_DEV_KEYSTORE_PASSWORD]

\* the directory of the crate's Cargo.toml: cmd.manifest().parent()
CratePath == [abs |-> TRUE, comps |-> <<"work", "app">>]

\* ndk_build::target::Target, in the order of the enum
AllTargets == <<"Arm64V8a", "ArmV7a", "X86", "X86_64">>

\* Target::rust_triple
RustTriple(target) ==
    CASE target = "Arm64V8a" -> "aarch64-linux-android"
      [] target = "ArmV7a" -> "armv7-linux-androideabi"
      [] target = "X86" -> "i686-linux-android"
      [] target = "X86_64" -> "x86_64-linux-android"

\* Target::from_rust_triple: None stands for its Err
FromRustTriple(triple) ==
    LET known == {i \in 1..Len(AllTargets) : RustTriple(AllTargets[i]) = triple}
    IN IF known = {} THEN None ELSE Some(AllTargets[CHOOSE i \in known : TRUE])

\* ndk_build::manifest::IntentFilter values
ActionMain == "android.intent.action.MAIN"

MainFilter ==
    [actions |-> <<ActionMain>>,
     categories |-> <<"android.intent.category.LAUNCHER">>,
     data |-> <<>>]

ViewFilter ==
    [actions |-> <<"android.intent.action.VIEW">>,
     categories |-> <<"android.intent.category.DEFAULT">>,
     data |-> <<>>]

ViewAndMainFilter ==
    [actions |-> <<"android.intent.action.VIEW", ActionMain>>,
     categories |-> <<>>,
     data |-> <<>>]

(***************************************************************************)
(* apk.rs 99-131 and 166-182: manifest defaulting, one operator per step   *)
(***************************************************************************)
\* sdk.target_sdk_version.get_or_insert_with(|| ndk.default_target_platform())
DefaultTargetSdk(m, ndkDefault) ==
    [m EXCEPT !.target_sdk_version = GetOrInsert(@, ndkDefault)]

\* application.debuggable.get_or_insert_with(|| *cmd.profile() == Profile::Dev)
DefaultDebuggable(m, profile) ==
    [m EXCEPT !.debuggable = GetOrInsert(@, profile.tag = "Dev")]

\* no intent filter names the MAIN action
LacksMainAction(m) ==
    \A i \in 1..Len(m.intent_filter) :
        \A j \in 1..Len(m.intent_filter[i].actions) :
            m.intent_filter[i].actions[j] # ActionMain

\* a step that pushes the MAIN filter whatever the filters already are
DefaultMainIntentAlways(m) ==
    [m EXCEPT !.intent_filter = Append(@, MainFilter)]

\* if .. all(..) { activity.intent_filter.push(IntentFilter { MAIN, LAUNCHER }) }
DefaultMainIntent(m) ==
    IF LacksMainAction(m)
    THEN [m EXCEPT !.intent_filter = Append(@, MainFilter)]
    ELSE m

\* a step that exports the activity on S and up whatever was declared
DefaultExportedOverwriting(m) ==
    IF Unwrap(m.target_sdk_version) >= 31
    THEN [m EXCEPT !.exported = Some(TRUE)]
    ELSE m

\* if target_sdk_version >= 31 { activity.exported.get_or_insert(true); }
DefaultExported(m) ==
    IF Unwrap(m.target_sdk_version) >= 31
    THEN [m EXCEPT !.exported = GetOrInsert(@, TRUE)]
    ELSE m

\* format!("rust.{}", name) / format!("rust.example.{}", name)
DefaultPackageName(artifact) ==
    LET name == ReplaceHyphens(artifact.name)
    IN CASE artifact.type = "Lib" -> <<"r", "u", "s", "t", ".">> \o name
         [] artifact.type = "Bin" -> <<"r", "u", "s", "t", ".">> \o name
         [] artifact.type = "Example" ->
              <<"r", "u", "s", "t", ".", "e", "x", "a", "m", "p", "l", "e", ".">> \o name

\* if manifest.package.is_empty() { manifest.package = .. }
DefaultPackage(m, artifact) ==
    IF m.package = <<>>
    THEN [m EXCEPT !.package = DefaultPackageName(artifact)]
    ELSE m

\* if manifest.application.label.is_empty() { .. = artifact.name.to_string() }
DefaultLabel(m, artifact) ==
    IF m.label = <<>>
    THEN [m EXCEPT !.label = artifact.name]
    ELSE m

\* activity.meta_data.push(MetaData { "android.app.lib_name", name with '_' })
PushLibName(m, artifact) ==
    [m EXCEPT !.meta_data =
        Append(@, [name |-> "android.app.lib_name",
                   value |-> ReplaceHyphens(artifact.name)])]

\* the defaulting steps of from_subcommand, in the order of the code
TemplateDefaults(m, ndkDefault, profile) ==
    DefaultExported(
        DefaultMainIntent(
            DefaultDebuggable(DefaultTargetSdk(m, ndkDefault), profile)))

\* the defaulting steps of build (the lib_name entry is pushed apart)
ArtifactDefaults(m, artifact) == DefaultLabel(DefaultPackage(m, artifact), artifact)

\* a min_sdk_version that hands the configured value through unclamped
MinSdkVersionUnclamped(m) == UnwrapOr(m.min_sdk_version, 23)

\* ApkBuilder::min_sdk_version: .unwrap_or(23).max(23)
MinSdkVersion(m) == Max(UnwrapOr(m.min_sdk_version, 23), 23)

(***************************************************************************)
(* apk.rs 257-305: the signing key of a build                              *)
(***************************************************************************)
KeyResolved(key, eprint) ==
    [kind |-> "Key", key |-> Some(key), profile |-> None, eprint |-> eprint]

MissingReleaseKey(profileName, eprint) ==
    [kind |-> "MissingReleaseKey", key |-> None, profile |-> Some(profileName),
     eprint |-> eprint]

\* the Err of self.ndk.debug_key()?, handed on as it is
DebugKeyFailed == [kind |-> "DebugKeyError", key |-> None, profile |-> None, eprint |-> <<>>]

\* a resolver that completes a path-only key with the default password for
\* every profile
ResolveKeyAnyProfileFallback(profile, env, signing, debugKey) ==
    LET profile_name == ProfileName(profile)
        path == env[KeystoreEnv(profile_name)]
        password == env[PasswordEnv(profile_name)]
        is_debug_profile == profile.tag = "Dev"
    IN CASE path # None /\ password # None ->
              KeyResolved([path |-> Unwrap(path), password |-> Unwrap(password)], <<>>)
         [] path # None /\ password = None ->
              KeyResolved([path |-> Unwrap(path),
                           password |-> DEFAULT_DEV_KEYSTORE_PASSWORD],
                          <<"password_env not specified, falling back to default password">>)
         [] OTHER ->
              IF profile_name \in DOMAIN signing
              THEN KeyResolved([path |-> PathJoin(CratePath, signing[profile_name].path),
                                password |-> signing[profile_name].keystore_password],
                               <<>>)
              ELSE IF is_debug_profile
              THEN (IF debugKey = None THEN DebugKeyFailed
                    ELSE KeyResolved(Unwrap(debugKey), <<>>))
              ELSE MissingReleaseKey(profile_name, <<>>)

\* a resolver that looks at the configured table before the environment
ResolveKeyConfigFirst(profile, env, signing, debugKey) ==
    LET profile_name == ProfileName(profile)
        path == env[KeystoreEnv(profile_name)]
        password == env[PasswordEnv(profile_name)]
        is_debug_profile == profile.tag = "Dev"
    IN CASE profile_name \in DOMAIN signing ->
              KeyResolved([path |-> PathJoin(CratePath, signing[profile_name].path),
                           password |-> signing[profile_name].keystore_password],
                          <<>>)
         [] path # None /\ password # None ->
              KeyResolved([path |-> Unwrap(path), password |-> Unwrap(password)], <<>>)
         [] path # None /\ password = None /\ is_debug_profile ->
              KeyResolved([path |-> Unwrap(path),
                           password |-> DEFAULT_DEV_KEYSTORE_PASSWORD],
                          <<"password_env not specified, falling back to default password">>)
         [] path # None /\ password = None ->
              MissingReleaseKey(profile_name,
                                <<"both or neither must be present for profiles other than dev">>)
         [] OTHER ->
              IF is_debug_profile
              THEN (IF debugKey = None THEN DebugKeyFailed
                    ELSE KeyResolved(Unwrap(debugKey), <<>>))
              ELSE MissingReleaseKey(profile_name, <<>>)

\* let signing_key = match (path, password) { .. }: the arms in the order
\* of the code, with what each prints on standard error.  `debugKey` is
\* what self.ndk.debug_key() answers: Some(key), or None for its Err.
ResolveKey(profile, env, signing, debugKey) ==
    LET profile_name == ProfileName(profile)
        path == env[KeystoreEnv(profile_name)]
        password == env[PasswordEnv(profile_name)]
        is_debug_profile == profile.tag = "Dev"
    IN CASE path # None /\ password # None ->
              KeyResolved([path |-> Unwrap(path), password |-> Unwrap(password)], <<>>)
         [] path # None /\ password = None /\ is_debug_profile ->
              KeyResolved([path |-> Unwrap(path),
                           password |-> DEFAULT_DEV_KEYSTORE_PASSWORD],
                          <<"password_env not specified, falling back to default password">>)
         [] path # None /\ password = None ->
              MissingReleaseKey(profile_name,
                                <<"both or neither must be present for profiles other than dev">>)
         [] OTHER ->
              IF profile_name \in DOMAIN signing
              THEN KeyResolved([path |-> PathJoin(CratePath, signing[profile_name].path),
                                password |-> signing[profile_name].keystore_password],
                               <<>>)
              ELSE IF is_debug_profile
              THEN (IF debugKey = None THEN DebugKeyFailed
                    ELSE KeyResolved(Unwrap(debugKey), <<>>))
              ELSE MissingReleaseKey(profile_name, <<>>)

(***************************************************************************)
(* State                                                                   *)
(***************************************************************************)
VARIABLES
    \* --- the supervised process and its two pipes
    procData,    \* [Streams -> Seq(byte)]: what the process writes in all
    exitPlan,    \* the exit code the process ends with if it is not killed
    toWrite,     \* [Streams -> Seq(byte)]: not yet written
    pipe,        \* [Streams -> Seq(byte)]: written and not yet read
    rdOpen,      \* [Streams -> BOOLEAN]: the read end is still held
    procState,   \* "unborn" | "running" | "exited"
    exitStatus,  \* exit code once exited, -1 before
    \* --- output_error
    rpc,         \* [Streams -> "unborn"|"read"|"lock"|"push"|"ok"|"err"]
    buf,         \* [Streams -> Seq(byte)]: buf[0..l] of the last read
    mutex,       \* "free" or the holder: a stream's reader, or "main"
    output,      \* Output.output: Seq of [stream, data]
    mpc,         \* "spawn"|"join1"|"join2"|"wait"|"verdict"|"done"
    waited,      \* the ExitStatus process.wait() returned, -1 before
    result       \* what output_error returned

VARIABLES
    \* --- ApkBuilder and the operation running on it
    cfg,          \* what the builder is made from: command line, environment,
                  \* Cargo.toml ([package.metadata.android]), NDK
    bpc,          \* "new"|"ready"|"compile"|"libs"|"key"|"align"|"sign"|"done"|"panicked"
    manifest,     \* self.manifest.android_manifest, the shared template
    buildTargets, \* self.build_targets
    op,           \* the operation: [name, artifact]
    k,            \* index in build_targets of the target at hand
    apk,          \* the package under construction: [manifest, libs, unsigned, signed]
    key,          \* Option: the resolved signing key
    events,       \* what the builder did, in order: commands run, collaborator
                  \* calls, lines printed on standard error
    ret           \* what the operation (or from_subcommand) returned

VARIABLES
    \* --- ApkBuilder::run and the device it talks to
    runArgs,      \* Option: the arguments of run, [artifact, no_logcat]
    runPc,        \* "idle"|"build"|"install"|"start"|"wait"|"decode"|"spawn"|
                  \* "monitor"|"kill"|"done"|"exited"
    waiting,      \* the local `waiting` of run
    polls,        \* pidof polls of the first loop: [made, failed], each
                  \* counted up to MaxPolls
    out,          \* Option: `out.stdout` of the poll that succeeded
    pid,          \* Option: the text String::from_utf8 made of it
    process,      \* the logcat child: "none" | "running" | "killed"
    app,          \* the app's process on the device: "absent" | "up"
    lastPoll,     \* the last pidof poll: [phase, outcome, tick]
    runRet        \* what run returned

builderVars == <<cfg, bpc, manifest, buildTargets, op, k, apk, key, events, ret>>

runVars == <<runArgs, runPc, waiting, polls, out, pid, process, app, lastPoll, runRet>>

captureVars == <<procData, exitPlan, toWrite, pipe, rdOpen, procState, exitStatus,
                 rpc, buf, mutex, output, mpc, waited, result>>

vars == <<captureVars, builderVars, runVars>>

NoResult == [kind |-> "none"]

OkResult(bytes) == [kind |-> "Ok", bytes |-> bytes]

CmdFailed(text) == [kind |-> "CmdFailed", text |-> text]

IoError == [kind |-> "Io"]

\* the state at the entry of output_error
CaptureInit ==
    /\ \E n \in 0..MaxOut, m \in 0..MaxErr :
           procData = [s \in Streams |->
                         IF s = "Stdout" THEN OutPayload(n) ELSE ErrPayload(m)]
    /\ exitPlan \in {0, 1}
    /\ toWrite = procData
    /\ pipe = [s \in Streams |-> <<>>]
    /\ rdOpen = [s \in Streams |-> TRUE]
    /\ procState = "unborn"
    /\ exitStatus = -1
    /\ rpc = [s \in Streams |-> "unborn"]
    /\ buf = [s \in Streams |-> <<>>]
    /\ mutex = "free"
    /\ output = <<>>
    /\ mpc = "spawn"
    /\ waited = -1
    /\ result = NoResult

(***************************************************************************)
(* The supervised process: it writes its payload to the two pipes in any   *)
(* order, blocking while a pipe is full, then closes both and exits.       *)
(***************************************************************************)
\* write(2) of one byte to a pipe whose read end is held
ProcWrite(s) ==
    /\ procState = "running"
    /\ toWrite[s] # <<>>
    /\ rdOpen[s]
    /\ Len(pipe[s]) < PipeCap
    /\ pipe' = [pipe EXCEPT ![s] = Append(@, Head(toWrite[s]))]
    /\ toWrite' = [toWrite EXCEPT ![s] = Tail(@)]
    /\ UNCHANGED <<procData, exitPlan, rdOpen, procState, exitStatus,
                   rpc, buf, mutex, output, mpc, waited, result>>
    /\ UNCHANGED <<builderVars, runVars>>

\* write(2) to a pipe whose read end was dropped: EPIPE, the byte is lost
\* (SIGPIPE ignored), or SIGPIPE kills the process (status 141)
ProcWriteBroken(s) ==
    /\ procState = "running"
    /\ toWrite[s] # <<>>
    /\ ~rdOpen[s]
    /\ \/ /\ toWrite' = [toWrite EXCEPT ![s] = Tail(@)]
          /\ UNCHANGED <<procState, exitStatus>>
       \/ /\ procState' = "exited"
          /\ exitStatus' = 141
          /\ UNCHANGED toWrite
    /\ UNCHANGED <<procData, exitPlan, pipe, rdOpen, rpc, buf, mutex, output,
                   mpc, waited, result>>
    /\ UNCHANGED <<builderVars, runVars>>

\* the process has written everything: it exits, which closes both write ends
ProcExit ==
    /\ procState = "running"
    /\ \A s \in Streams : toWrite[s] = <<>>
    /\ procState' = "exited"
    /\ exitStatus' = exitPlan
    /\ UNCHANGED <<procData, exitPlan, toWrite, pipe, rdOpen, rpc, buf, mutex,
                   output, mpc, waited, result>>
    /\ UNCHANGED <<builderVars, runVars>>

ProcStep == (\E s \in Streams : ProcWrite(s) \/ ProcWriteBroken(s)) \/ ProcExit

(***************************************************************************)
(* util.rs 65-98: the two reader threads                                   *)
(***************************************************************************)
\* stream.read(&mut buf): Ok(l) with 1 <= l <= buf.len(), or Ok(0) at the
\* end of the stream (pipe empty and every write end closed)
ReadBody(s) ==
    /\ rpc[s] = "read"
    /\ \/ /\ pipe[s] # <<>>
          /\ \E l \in 1..Min(BufLen, Len(pipe[s])) :
                /\ buf' = [buf EXCEPT ![s] = Take(pipe[s], l)]
                /\ pipe' = [pipe EXCEPT ![s] = Drop(@, l)]
          /\ rpc' = [rpc EXCEPT ![s] = "lock"]
          /\ UNCHANGED rdOpen
       \/ /\ pipe[s] = <<>>
          /\ procState = "exited"
          /\ rpc' = [rpc EXCEPT ![s] = "ok"]
          /\ rdOpen' = [rdOpen EXCEPT ![s] = FALSE]
          /\ UNCHANGED <<buf, pipe>>
    /\ UNCHANGED <<procData, exitPlan, toWrite, procState, exitStatus, mutex,
                   output, mpc, waited, result>>
    /\ UNCHANGED <<builderVars, runVars>>

\* a drain that reads standard error only once standard output has ended
ReadOneAfterTheOther(s) ==
    /\ s = "Stderr" => rpc["Stdout"] \in {"ok", "err"}
    /\ ReadBody(s)

\* both threads are spawned before either is joined: each reads on its own
Read(s) == ReadBody(s)

\* Err(why) => break Err(why): the thread ends and drops its end of the pipe
ReadErr(s) ==
    /\ rpc[s] = "read"
    /\ rpc' = [rpc EXCEPT ![s] = "err"]
    /\ rdOpen' = [rdOpen EXCEPT ![s] = FALSE]
    /\ pipe' = [pipe EXCEPT ![s] = <<>>]
    /\ UNCHANGED <<procData, exitPlan, toWrite, procState, exitStatus, buf,
                   mutex, output, mpc, waited, result>>
    /\ UNCHANGED <<builderVars, runVars>>

\* a lock that each thread takes on a mutex of its own
LockUnshared(s) ==
    /\ rpc[s] = "lock"
    /\ rpc' = [rpc EXCEPT ![s] = "push"]
    /\ mutex' = s
    /\ UNCHANGED <<procData, exitPlan, toWrite, pipe, rdOpen, procState,
                   exitStatus, buf, output, mpc, waited, result>>
    /\ UNCHANGED <<builderVars, runVars>>

\* output.lock().unwrap()
Lock(s) ==
    /\ rpc[s] = "lock"
    /\ mutex = "free"
    /\ rpc' = [rpc EXCEPT ![s] = "push"]
    /\ mutex' = s
    /\ UNCHANGED <<procData, exitPlan, toWrite, pipe, rdOpen, procState,
                   exitStatus, buf, output, mpc, waited, result>>
    /\ UNCHANGED <<builderVars, runVars>>

\* .push(Stream::X, buf[0..l].to_vec()); the guard is dropped with the statement
Push(s) ==
    /\ rpc[s] = "push"
    /\ output' = OutputPush(output, s, buf[s])
    /\ mutex' = "free"
    /\ rpc' = [rpc EXCEPT ![s] = "read"]
    /\ buf' = [buf EXCEPT ![s] = <<>>]
    /\ UNCHANGED <<procData, exitPlan, toWrite, pipe, rdOpen, procState,
                   exitStatus, mpc, waited, result>>
    /\ UNCHANGED <<builderVars, runVars>>

ReaderStep(s) == Read(s) \/ Lock(s) \/ Push(s)

(***************************************************************************)
(* util.rs 54-111: output_error, the orchestrating thread                  *)
(***************************************************************************)
\* command.spawn()?, then the two thread::spawn calls
Spawn ==
    /\ mpc = "spawn"
    /\ \/ /\ procState' = "running"
          /\ rpc' = [s \in Streams |-> "read"]
          /\ mpc' = "join1"
          /\ UNCHANGED result
       \/ /\ mpc' = "done"
          /\ result' = IoError
          /\ UNCHANGED <<procState, rpc>>
    /\ UNCHANGED <<procData, exitPlan, toWrite, pipe, rdOpen, exitStatus, buf,
                   mutex, output, waited>>
    /\ UNCHANGED <<builderVars, runVars>>

\* h.join().map_err(..)??: blocks until the thread has ended; its Err is
\* returned at once, the other thread and the process left on their own
Join(at, s, next) ==
    /\ mpc = at
    /\ rpc[s] \in {"ok", "err"}
    /\ IF rpc[s] = "ok"
       THEN mpc' = next /\ UNCHANGED result
       ELSE mpc' = "done" /\ result' = IoError
    /\ UNCHANGED <<procData, exitPlan, toWrite, pipe, rdOpen, procState,
                   exitStatus, rpc, buf, mutex, output, waited>>
    /\ UNCHANGED <<builderVars, runVars>>

\* an orchestrator that joins the first thread only
JoinFirstOnly ==
    /\ mpc = "join2"
    /\ mpc' = "wait"
    /\ UNCHANGED <<procData, exitPlan, toWrite, pipe, rdOpen, procState,
                   exitStatus, rpc, buf, mutex, output, waited, result>>
    /\ UNCHANGED <<builderVars, runVars>>

\* h1.join(): the standard-output reader
JoinH1 == Join("join1", "Stdout", "join2")

\* h2.join(): the standard-error reader
JoinH2 == Join("join2", "Stderr", "wait")

\* process.wait()?: blocks until the process has exited
Wait ==
    /\ mpc = "wait"
    /\ procState = "exited"
    /\ waited' = exitStatus
    /\ mpc' = "verdict"
    /\ UNCHANGED <<procData, exitPlan, toWrite, pipe, rdOpen, procState,
                   exitStatus, rpc, buf, mutex, output, result>>
    /\ UNCHANGED <<builderVars, runVars>>

\* .success(), then output.lock().unwrap().stdout() or .stderr()
Verdict ==
    /\ mpc = "verdict"
    /\ mutex = "free"
    /\ result' = IF waited = 0
                 THEN OkResult(OutputStdout(output))
                 ELSE CmdFailed(FromUtf8Lossy(OutputStderr(output)))
    /\ mpc' = "done"
    /\ UNCHANGED <<procData, exitPlan, toWrite, pipe, rdOpen, procState,
                   exitStatus, rpc, buf, mutex, output, waited>>
    /\ UNCHANGED <<builderVars, runVars>>

MainStep == Spawn \/ JoinH1 \/ JoinH2 \/ Wait \/ Verdict

NextCapture ==
    \/ ProcStep
    \/ \E s \in Streams : ReaderStep(s) \/ ReadErr(s)
    \/ MainStep

(***************************************************************************)
(* apk.rs: ApkBuilder.  What an operation returns, and what it records.    *)
(***************************************************************************)
NoRet == [kind |-> "none", error |-> "", detail |-> None]

RetOk == [kind |-> "Ok", error |-> "", detail |-> None]

RetErr(error, detail) == [kind |-> "Err", error |-> error, detail |-> detail]

NoOp == [name |-> "none", artifact |-> None]

NoApk == [manifest |-> None, libs |-> <<>>, unsigned |-> FALSE, signed |-> None]

NoManifest ==
    [package |-> <<>>, label |-> <<>>, min_sdk_version |-> None,
     target_sdk_version |-> None, debuggable |-> None, intent_filter |-> <<>>,
     exported |-> None, meta_data |-> <<>>, version_name |-> None,
     version_code |-> None]

\* cargo_subcommand::Artifact: a name and a type
ArtifactNames == {<<"a", "-", "b">>, <<"g">>}

ArtifactTypes == {"Lib", "Bin", "Example"}

Artifacts == {[name |-> n, type |-> t] : n \in ArtifactNames, t \in ArtifactTypes}

\* the cargo command of one target: cargo_ndk(ndk, target, min_sdk_version,
\* target_dir), the subcommand, and --target <triple> unless the command
\* line named a target
CargoCommand(subcmd, target) ==
    [subcmd |-> subcmd, target |-> target,
     min_sdk_version |-> MinSdkVersion(manifest),
     target_arg |-> IF cfg.cmdTarget = None THEN Some(RustTriple(target)) ELSE None]

\* a cargo command that was run, and how output_error said it ended
CargoRun(command, outcome) == [ev |-> "cargo", command |-> command, outcome |-> outcome]

Event(ev, target) == [ev |-> ev, target |-> target]

Eprintln(lines) == [i \in 1..Len(lines) |-> [ev |-> "eprintln", line |-> lines[i]]]

\* the events of one kind, in order
EventsOf(ev) == SelectSeq(events, LAMBDA e : e.ev = ev)

(***************************************************************************)
(* apk.rs 26-141: ApkBuilder::from_subcommand                              *)
(***************************************************************************)
\* lines 55-77: the package version, or the error that ends the
\* construction ("panic" for the missing [workspace] table)
PackageVersion(version, workspace_manifest) ==
    CASE version.kind = "Value" -> [ok |-> TRUE, value |-> version.value]
      [] version.kind = "Inherited" /\ version.workspace ->
           IF workspace_manifest = None
           THEN [ok |-> FALSE, value |-> "InheritanceMissingWorkspace"]
           ELSE IF Unwrap(workspace_manifest).workspace = None
           THEN [ok |-> FALSE, value |-> "panic"]
           ELSE IF Unwrap(Unwrap(workspace_manifest).workspace).package = None
           THEN [ok |-> FALSE, value |-> "WorkspaceMissingInheritedField(package)"]
           ELSE IF Unwrap(Unwrap(Unwrap(workspace_manifest).workspace).package).version = None
           THEN [ok |-> FALSE, value |-> "WorkspaceMissingInheritedField(package.version)"]
           ELSE [ok |-> TRUE,
                 value |-> Unwrap(Unwrap(Unwrap(Unwrap(workspace_manifest).workspace).package).version)]
      [] OTHER -> [ok |-> FALSE, value |-> "InheritedFalse"]

\* the versions of the model VersionCode::from_semver accepts
IsSemver(v) == v \in {"1.2.3", "2.0.0"}

\* VersionCode::from_semver(&package_version)?.to_code(1), kept symbolic
VersionCodeOf(v) == <<"code", v, 1>>

\* from_subcommand up to its return.  `loaded`: Ndk::from_env and the two
\* parse_from_toml calls succeeded; `detected`: what ndk.detect_abi answers
\* if it is asked.
FromSubcommand ==
    /\ bpc = "new"
    /\ \E loaded \in BOOLEAN, detected \in {None} \cup {Some(AllTargets[i]) : i \in 1..Len(AllTargets)} :
        LET byTriple == IF cfg.cmdTarget = None THEN None
                        ELSE FromRustTriple(Unwrap(cfg.cmdTarget))
            asksDevice == cfg.cmdTarget = None /\ cfg.build_targets = <<>>
            targets == IF cfg.cmdTarget # None THEN byTriple
                       ELSE IF cfg.build_targets # <<>> THEN cfg.build_targets
                       ELSE <<UnwrapOr(detected, "Arm64V8a")>>
            ranAbi == IF asksDevice THEN <<[ev |-> "detect_abi"]>> ELSE <<>>
            pv == PackageVersion(cfg.version, cfg.workspace)
            versioned == [cfg.am EXCEPT !.version_name = Some(pv.value),
                                        !.version_code = Some(VersionCodeOf(pv.value))]
        IN IF ~loaded
           THEN /\ bpc' = "done"
                /\ ret' = RetErr("Load", None)
                /\ UNCHANGED <<manifest, buildTargets, events>>
           ELSE IF cfg.cmdTarget # None /\ byTriple = None
           THEN /\ bpc' = "done"
                /\ ret' = RetErr("UnsupportedTarget", None)
                /\ UNCHANGED <<manifest, buildTargets, events>>
           ELSE IF ~pv.ok
           THEN /\ bpc' = IF pv.value = "panic" THEN "panicked" ELSE "done"
                /\ ret' = IF pv.value = "panic" THEN NoRet ELSE RetErr(pv.value, None)
                /\ events' = events \o ranAbi
                /\ UNCHANGED <<manifest, buildTargets>>
           ELSE IF ~IsSemver(pv.value)
           THEN /\ bpc' = "done"
                /\ ret' = RetErr("InvalidSemver", None)
                /\ events' = events \o ranAbi
                /\ UNCHANGED <<manifest, buildTargets>>
           ELSE IF cfg.am.version_name # None \/ cfg.am.version_code # None
           THEN /\ bpc' = "panicked"
                /\ events' = events \o ranAbi
                /\ UNCHANGED <<manifest, buildTargets, ret>>
           ELSE /\ bpc' = "ready"
                /\ manifest' = TemplateDefaults(versioned, cfg.ndkDefault, cfg.profile)
                /\ buildTargets' = targets
                /\ events' = events \o ranAbi
                /\ UNCHANGED ret
    /\ UNCHANGED <<cfg, op, k, apk, key>>
    /\ UNCHANGED <<captureVars, runVars>>

(***************************************************************************)
(* apk.rs 143-160, 393-416: check and default; 162-315: build              *)
(***************************************************************************)
\* pub fn check(&self) / pub fn default(&self, ..): entry of the loop
StartLoop(name) ==
    /\ bpc = "ready"
    /\ op' = [name |-> name, artifact |-> None]
    /\ k' = 1
    /\ bpc' = "compile"
    /\ UNCHANGED <<cfg, manifest, buildTargets, apk, key, events, ret>>
    /\ UNCHANGED <<captureVars, runVars>>

\* a build that sets the artifact's values in the builder's own descriptor
StartBuildInPlace(artifact) ==
    /\ bpc = "ready"
    /\ op' = [name |-> "build", artifact |-> Some(artifact)]
    /\ LET m == PushLibName(ArtifactDefaults(manifest, artifact), artifact)
       IN /\ manifest' = m
          /\ \E created \in BOOLEAN :
               IF created
               THEN /\ apk' = [NoApk EXCEPT !.manifest = Some(m)]
                    /\ events' = Append(events, [ev |-> "create_apk", manifest |-> m])
                    /\ k' = 1
                    /\ bpc' = "compile"
                    /\ UNCHANGED ret
               ELSE /\ ret' = RetErr("NdkError", None)
                    /\ events' = Append(events, [ev |-> "create_apk", manifest |-> m])
                    /\ bpc' = "done"
                    /\ UNCHANGED <<apk, k>>
    /\ UNCHANGED <<cfg, buildTargets, key>>
    /\ UNCHANGED <<captureVars, runVars>>

\* build, lines 163-220: the per-artifact manifest and config.create_apk()?
StartBuild(artifact) ==
    /\ bpc = "ready"
    /\ op' = [name |-> "build", artifact |-> Some(artifact)]
    /\ LET m == PushLibName(ArtifactDefaults(manifest, artifact), artifact)
       IN \E created \in BOOLEAN :
            IF created
            THEN /\ apk' = [NoApk EXCEPT !.manifest = Some(m)]
                 /\ events' = Append(events, [ev |-> "create_apk", manifest |-> m])
                 /\ k' = 1
                 /\ bpc' = "compile"
                 /\ UNCHANGED ret
            ELSE /\ ret' = RetErr("NdkError", None)
                 /\ events' = Append(events, [ev |-> "create_apk", manifest |-> m])
                 /\ bpc' = "done"
                 /\ UNCHANGED <<apk, k>>
    /\ UNCHANGED <<cfg, manifest, buildTargets, key>>
    /\ UNCHANGED <<captureVars, runVars>>

\* where the loop goes after the cargo command of target k succeeded
AfterCargoOk ==
    IF op.name = "build"
    THEN bpc' = "libs" /\ UNCHANGED <<k, ret>>
    ELSE IF k < Len(buildTargets)
    THEN bpc' = "compile" /\ k' = k + 1 /\ UNCHANGED ret
    ELSE bpc' = "done" /\ ret' = RetOk /\ UNCHANGED k

\* one pass of `for target in &self.build_targets`: cargo_ndk(..)?, the
\* arguments, output_error(cargo)?.  output_error answers Ok, CmdFailed
\* (the command exited non-zero) or an I/O error; with `stopOnFailure` its
\* Err ends the operation, as `?` does.
CargoBody(stopOnFailure) ==
    /\ bpc = "compile"
    /\ LET command == CargoCommand(op.name, buildTargets[k])
       IN \E outcome \in {"NoCommand", "Ok", "CmdFailed", "Io"} :
            CASE outcome = "NoCommand" ->
                   /\ ret' = RetErr("NdkError", None)
                   /\ bpc' = "done"
                   /\ UNCHANGED <<events, k>>
              [] outcome = "Ok" \/ ~stopOnFailure ->
                   /\ events' = Append(events, CargoRun(command, outcome))
                   /\ AfterCargoOk
              [] OTHER ->
                   /\ events' = Append(events, CargoRun(command, outcome))
                   /\ ret' = RetErr(outcome, Some(command))
                   /\ bpc' = "done"
                   /\ UNCHANGED k
    /\ UNCHANGED <<cfg, manifest, buildTargets, op, apk, key>>
    /\ UNCHANGED <<captureVars, runVars>>

\* a loop that goes on to the next target after a failed command
CargoStepGoingOn == CargoBody(FALSE)

\* output_error(cargo)?: a failed command returns from the operation
CargoStep == CargoBody(TRUE)

\* a library step that leaves the loop after the first target
AddLibsFirstOnly ==
    /\ bpc = "libs"
    /\ LET target == buildTargets[k]
           addLib == Event("add_lib_recursively", target)
           addRuntime == Event("add_runtime_libs", target)
       IN \E outcome \in {"NoSearchPaths", "AddLibFailed", "RuntimeLibsFailed", "Ok"} :
            /\ outcome = "RuntimeLibsFailed" => cfg.runtime_libs # None
            /\ events' = events \o
                 (CASE outcome = "NoSearchPaths" -> <<>>
                    [] outcome = "AddLibFailed" -> <<addLib>>
                    [] OTHER -> IF cfg.runtime_libs # None
                                THEN <<addLib, addRuntime>> ELSE <<addLib>>)
            /\ IF outcome = "Ok"
               THEN /\ apk' = [apk EXCEPT !.libs = Append(@, target)]
                    /\ bpc' = "key"
                    /\ UNCHANGED <<k, ret>>
               ELSE /\ ret' = RetErr("NdkError", Some(outcome))
                    /\ bpc' = "done"
                    /\ UNCHANGED <<apk, k>>
    /\ UNCHANGED <<cfg, manifest, buildTargets, op, key>>
    /\ UNCHANGED <<captureVars, runVars>>

\* build, lines 241-254: get_libs_search_paths(..)?, add_lib_recursively(..)?
\* and, if runtime_libs is configured, add_runtime_libs(..)?
AddLibs ==
    /\ bpc = "libs"
    /\ LET target == buildTargets[k]
           addLib == Event("add_lib_recursively", target)
           addRuntime == Event("add_runtime_libs", target)
       IN \E outcome \in {"NoSearchPaths", "AddLibFailed", "RuntimeLibsFailed", "Ok"} :
            /\ outcome = "RuntimeLibsFailed" => cfg.runtime_libs # None
            /\ events' = events \o
                 (CASE outcome = "NoSearchPaths" -> <<>>
                    [] outcome = "AddLibFailed" -> <<addLib>>
                    [] OTHER -> IF cfg.runtime_libs # None
                                THEN <<addLib, addRuntime>> ELSE <<addLib>>)
            /\ IF outcome = "Ok"
               THEN /\ apk' = [apk EXCEPT !.libs = Append(@, target)]
                    /\ IF k < Len(buildTargets)
                       THEN bpc' = "compile" /\ k' = k + 1
                       ELSE bpc' = "key" /\ UNCHANGED k
                    /\ UNCHANGED ret
               ELSE /\ ret' = RetErr("NdkError", Some(outcome))
                    /\ bpc' = "done"
                    /\ UNCHANGED <<apk, k>>
    /\ UNCHANGED <<cfg, manifest, buildTargets, op, key>>
    /\ UNCHANGED <<captureVars, runVars>>

\* build, lines 257-305: the signing key, or the Err the build returns
SigningKey ==
    /\ bpc = "key"
    /\ \E debugKey \in {None, Some(DebugKey)} :
        LET r == ResolveKey(cfg.profile, cfg.env, cfg.signing, debugKey)
        IN /\ events' = events \o Eprintln(r.eprint)
           /\ IF r.kind = "Key"
              THEN /\ key' = r.key
                   /\ bpc' = "align"
                   /\ UNCHANGED ret
              ELSE /\ ret' = RetErr(r.kind, r.profile)
                   /\ bpc' = "done"
                   /\ UNCHANGED key
    /\ UNCHANGED <<cfg, manifest, buildTargets, op, k, apk>>
    /\ UNCHANGED <<captureVars, runVars>>

\* build, line 307: apk.add_pending_libs_and_align()?
Align ==
    /\ bpc = "align"
    /\ events' = Append(events, [ev |-> "add_pending_libs_and_align"])
    /\ \E aligned \in BOOLEAN :
         IF aligned
         THEN apk' = [apk EXCEPT !.unsigned = TRUE] /\ bpc' = "sign" /\ UNCHANGED ret
         ELSE ret' = RetErr("NdkError", None) /\ bpc' = "done" /\ UNCHANGED apk
    /\ UNCHANGED <<cfg, manifest, buildTargets, op, k, key>>
    /\ UNCHANGED <<captureVars, runVars>>

\* build, lines 309-314: Ok(unsigned.sign(signing_key)?)
Sign ==
    /\ bpc = "sign"
    /\ events' = Append(events, [ev |-> "sign", key |-> Unwrap(key)])
    /\ \E signed \in BOOLEAN :
         IF signed
         THEN apk' = [apk EXCEPT !.signed = key] /\ ret' = RetOk
         ELSE ret' = RetErr("NdkError", None) /\ UNCHANGED apk
    /\ bpc' = "done"
    /\ UNCHANGED <<cfg, manifest, buildTargets, op, k, key>>
    /\ UNCHANGED <<captureVars, runVars>>

NextBuilder ==
    \/ FromSubcommand
    \/ \E name \in {"check", "default"} : StartLoop(name)
    \/ \E artifact \in Artifacts : StartBuild(artifact)
    \/ CargoStep
    \/ AddLibs
    \/ SigningKey
    \/ Align
    \/ Sign

\* build takes &self: once a build has returned, with a package or with an
\* error, the builder is there for the next call
BuildAgain ==
    /\ bpc = "done"
    /\ op.name = "build"
    /\ Len(EventsOf("create_apk")) < MaxBuilds
    /\ bpc' = "ready"
    /\ op' = NoOp
    /\ k' = 0
    /\ apk' = NoApk
    /\ key' = None
    /\ ret' = NoRet
    /\ UNCHANGED <<cfg, manifest, buildTargets, events>>
    /\ UNCHANGED <<captureVars, runVars>>

NextRebuild ==
    \/ FromSubcommand
    \/ \E artifact \in Artifacts : StartBuild(artifact)
    \/ CargoStep
    \/ AddLibs
    \/ SigningKey
    \/ Align
    \/ Sign
    \/ BuildAgain

(***************************************************************************)
(* apk.rs 317-378: ApkBuilder::run.  The device answers each adb command;  *)
(* the app's process comes up and goes away on its own.                    *)
(***************************************************************************)
\* String::from_utf8 on the model's bytes: Err (None) if a byte is 0xFF,
\* else the text, a sequence of code points
FromUtf8(bytes) ==
    IF \E i \in 1..Len(bytes) : bytes[i] = 255
    THEN None
    ELSE Some([i \in 1..Len(bytes) |-> bytes[i]])

\* char::is_whitespace on the characters of the model
IsSpace(c) == c \in {9, 10, 13, 32}

RECURSIVE TrimStart(_)
TrimStart(text) ==
    IF text # <<>> /\ IsSpace(Head(text)) THEN TrimStart(Tail(text)) ELSE text

RECURSIVE TrimEnd(_)
TrimEnd(text) ==
    IF text # <<>> /\ IsSpace(text[Len(text)])
    THEN TrimEnd(SubSeq(text, 1, Len(text) - 1))
    ELSE text

\* str::trim
Trim(text) == TrimEnd(TrimStart(text))

\* what `pidof` may leave on its standard output when it succeeds: "12\n",
\* " 7 \n", and bytes that are not UTF-8
PidOutputs == {<<49, 50, 10>>, <<32, 55, 32, 10>>, <<255, 10>>}

\* how one `adb shell pidof <package>` ends: self.ndk.adb(..) gave no
\* command; the command could not be executed; it ran and exited non-zero;
\* it ran and exited zero
PollOutcomes == {"NoCommand", "ExecFailed", "NotFound", "Found"}

NoPoll == [phase |-> "none", outcome |-> "none", tick |-> 0]

Polled(phase, outcome) ==
    [phase |-> phase, outcome |-> outcome, tick |-> 1 - lastPoll.tick]

\* a count that stops at MaxPolls
Count(n) == Min(n + 1, MaxPolls)

\* a call of apk.reverse_port_forwarding, apk.install, apk.start or
\* process.kill, and whether it succeeded
DeviceCall(ev, ok) == [ev |-> ev, ok |-> ok]

WaitingNotice == [ev |-> "eprintln", line |-> "Waiting for the app to start!"]

NotRunningNotice == [ev |-> "eprintln", line |-> "App not running!"]

\* run is not being called
RunIdle ==
    /\ runArgs = None
    /\ runPc = "idle"
    /\ waiting = FALSE
    /\ polls = [made |-> 0, failed |-> 0]
    /\ out = None
    /\ pid = None
    /\ process = "none"
    /\ app = "absent"
    /\ lastPoll = NoPoll
    /\ runRet = NoRet

\* pub fn run(&self, artifact, no_logcat): the call
Run(artifact, no_logcat) ==
    /\ bpc = "ready"
    /\ runPc = "idle"
    /\ runArgs' = Some([artifact |-> artifact, no_logcat |-> no_logcat])
    /\ runPc' = "build"
    /\ UNCHANGED <<waiting, polls, out, pid, process, app, lastPoll, runRet>>
    /\ UNCHANGED <<captureVars, builderVars>>

\* line 318: self.build(artifact), entered
RunBuild ==
    /\ runPc = "build"
    /\ StartBuild(Unwrap(runArgs).artifact)

\* line 318: `?` on the Err of build
BuildFailed ==
    /\ runPc = "build"
    /\ bpc = "done"
    /\ ret.kind = "Err"
    /\ runRet' = ret
    /\ runPc' = "done"
    /\ UNCHANGED <<runArgs, waiting, polls, out, pid, process, app, lastPoll>>
    /\ UNCHANGED <<captureVars, builderVars>>

\* line 319: apk.reverse_port_forwarding(..)?, on the Apk build returned
ReversePortForward ==
    /\ runPc = "build"
    /\ bpc = "done"
    /\ ret = RetOk
    /\ \E ok \in BOOLEAN :
         /\ events' = Append(events, DeviceCall("reverse_port_forwarding", ok))
         /\ IF ok
            THEN runPc' = "install" /\ UNCHANGED runRet
            ELSE runPc' = "done" /\ runRet' = RetErr("NdkError", None)
    /\ UNCHANGED <<runArgs, waiting, polls, out, pid, process, app, lastPoll>>
    /\ UNCHANGED <<cfg, bpc, manifest, buildTargets, op, k, apk, key, ret>>
    /\ UNCHANGED captureVars

\* an install whose failure is not looked at
InstallUnchecked ==
    /\ runPc = "install"
    /\ \E ok \in BOOLEAN :
         /\ events' = Append(events, DeviceCall("install", ok))
         /\ runPc' = "start"
         /\ UNCHANGED runRet
    /\ UNCHANGED <<runArgs, waiting, polls, out, pid, process, app, lastPoll>>
    /\ UNCHANGED <<cfg, bpc, manifest, buildTargets, op, k, apk, key, ret>>
    /\ UNCHANGED captureVars

\* line 320: apk.install(..)?
Install ==
    /\ runPc = "install"
    /\ \E ok \in BOOLEAN :
         /\ events' = Append(events, DeviceCall("install", ok))
         /\ IF ok
            THEN runPc' = "start" /\ UNCHANGED runRet
            ELSE runPc' = "done" /\ runRet' = RetErr("NdkError", None)
    /\ UNCHANGED <<runArgs, waiting, polls, out, pid, process, app, lastPoll>>
    /\ UNCHANGED <<cfg, bpc, manifest, buildTargets, op, k, apk, key, ret>>
    /\ UNCHANGED captureVars

\* line 321: apk.start(..)?, then `if !no_logcat`; with no_logcat, Ok(())
Start ==
    /\ runPc = "start"
    /\ \E ok \in BOOLEAN :
         /\ events' = Append(events, DeviceCall("start", ok))
         /\ IF ~ok
            THEN runPc' = "done" /\ runRet' = RetErr("NdkError", None)
            ELSE IF Unwrap(runArgs).no_logcat
            THEN runPc' = "done" /\ runRet' = RetOk
            ELSE runPc' = "wait" /\ UNCHANGED runRet
    /\ UNCHANGED <<runArgs, waiting, polls, out, pid, process, app, lastPoll>>
    /\ UNCHANGED <<cfg, bpc, manifest, buildTargets, op, k, apk, key, ret>>
    /\ UNCHANGED captureVars

\* has the app been launched on the device
Launched == \E i \in 1..Len(events) : events[i] = DeviceCall("start", TRUE)

\* while run watches it, the app's process comes up ..
AppUp ==
    /\ runPc \in {"wait", "decode", "spawn", "monitor", "kill"}
    /\ Launched
    /\ app = "absent"
    /\ app' = "up"
    /\ UNCHANGED <<runArgs, runPc, waiting, polls, out, pid, process, lastPoll, runRet>>
    /\ UNCHANGED <<captureVars, builderVars>>

\* .. and goes away
AppExit ==
    /\ runPc \in {"wait", "decode", "spawn", "monitor", "kill"}
    /\ app = "up"
    /\ app' = "absent"
    /\ UNCHANGED <<runArgs, runPc, waiting, polls, out, pid, process, lastPoll, runRet>>
    /\ UNCHANGED <<captureVars, builderVars>>

\* lines 326-341, one pass of the first loop: sleep 250 ms, adb(..)?,
\* .output()?, then break with out.stdout on success, else the notice unless
\* `waiting` is set.  With `once` false the notice is printed on every pass.
WaitPollBody(once) ==
    /\ runPc = "wait"
    /\ \E outcome \in PollOutcomes :
         /\ outcome = "Found" => app = "up"
         /\ lastPoll' = Polled("wait", outcome)
         /\ CASE outcome = "NoCommand" ->
                   /\ runRet' = RetErr("NdkError", None)
                   /\ runPc' = "done"
                   /\ UNCHANGED <<waiting, polls, out, events>>
              [] outcome = "ExecFailed" ->
                   /\ runRet' = RetErr("Io", None)
                   /\ runPc' = "done"
                   /\ UNCHANGED <<waiting, polls, out, events>>
              [] outcome = "Found" ->
                   /\ \E stdout \in PidOutputs : out' = Some(stdout)
                   /\ polls' = [polls EXCEPT !.made = Count(@)]
                   /\ runPc' = "decode"
                   /\ UNCHANGED <<waiting, events, runRet>>
              [] OTHER ->
                   /\ polls' = [made |-> Count(polls.made), failed |-> Count(polls.failed)]
                   /\ waiting' = TRUE
                   /\ events' = IF ~waiting \/ ~once
                                THEN Append(events, WaitingNotice)
                                ELSE events
                   /\ UNCHANGED <<out, runPc, runRet>>
    /\ UNCHANGED <<runArgs, pid, process, app>>
    /\ UNCHANGED <<cfg, bpc, manifest, buildTargets, op, k, apk, key, ret>>
    /\ UNCHANGED captureVars

\* a first loop that prints the notice after every poll that found nothing
WaitPollNoticeEach == WaitPollBody(FALSE)

\* the first loop as it is: `else if !waiting { waiting = true; eprintln!(..) }`
WaitPoll == WaitPollBody(TRUE)

\* a decoding that replaces what is not UTF-8 and goes on
DecodePidLossy ==
    /\ runPc = "decode"
    /\ pid' = Some(FromUtf8Lossy(Unwrap(out)))
    /\ runPc' = "spawn"
    /\ UNCHANGED <<runArgs, waiting, polls, out, process, app, lastPoll, runRet>>
    /\ UNCHANGED <<captureVars, builderVars>>

\* lines 342-345: let Ok(pid) = String::from_utf8(pid) else { eprintln!("App
\* not running!"); exit(1) }
DecodePid ==
    /\ runPc = "decode"
    /\ IF FromUtf8(Unwrap(out)) = None
       THEN /\ events' = Append(events, NotRunningNotice)
            /\ runPc' = "exited"
            /\ UNCHANGED pid
       ELSE /\ pid' = FromUtf8(Unwrap(out))
            /\ runPc' = "spawn"
            /\ UNCHANGED events
    /\ UNCHANGED <<runArgs, waiting, polls, out, process, app, lastPoll, runRet>>
    /\ UNCHANGED <<cfg, bpc, manifest, buildTargets, op, k, apk, key, ret>>
    /\ UNCHANGED captureVars

\* lines 346-354: adb(..)? logcat -v color --pid <pid.trim()>, .spawn()?
SpawnLogcat ==
    /\ runPc = "spawn"
    /\ \E outcome \in {"NoCommand", "SpawnFailed", "Spawned"} :
         CASE outcome = "NoCommand" ->
                /\ runRet' = RetErr("NdkError", None)
                /\ runPc' = "done"
                /\ UNCHANGED <<process, events>>
           [] outcome = "SpawnFailed" ->
                /\ runRet' = RetErr("Io", None)
                /\ runPc' = "done"
                /\ UNCHANGED <<process, events>>
           [] OTHER ->
                /\ process' = "running"
                /\ events' = Append(events, [ev |-> "logcat", pid |-> Trim(Unwrap(pid))])
                /\ runPc' = "monitor"
                /\ UNCHANGED runRet
    /\ UNCHANGED <<runArgs, waiting, polls, out, pid, app, lastPoll>>
    /\ UNCHANGED <<cfg, bpc, manifest, buildTargets, op, k, apk, key, ret>>
    /\ UNCHANGED captureVars

\* lines 355-372, one pass of the second loop: sleep 1 s, adb(..)?, then
\* break if .status().map(|x| x.success()) is Err(_) or Ok(false)
MonitorPoll ==
    /\ runPc = "monitor"
    /\ \E outcome \in PollOutcomes :
         /\ outcome = "Found" => app = "up"
         /\ lastPoll' = Polled("monitor", outcome)
         /\ CASE outcome = "NoCommand" ->
                   runRet' = RetErr("NdkError", None) /\ runPc' = "done"
              [] outcome = "Found" -> UNCHANGED <<runPc, runRet>>
              [] OTHER -> runPc' = "kill" /\ UNCHANGED runRet
    /\ UNCHANGED <<runArgs, waiting, polls, out, pid, process, app>>
    /\ UNCHANGED <<captureVars, builderVars>>

\* lines 373-377: sleep 250 ms, process.kill()?, Ok(())
Kill ==
    /\ runPc = "kill"
    /\ \E ok \in BOOLEAN :
         /\ events' = Append(events, DeviceCall("kill", ok))
         /\ IF ok
            THEN process' = "killed" /\ runRet' = RetOk
            ELSE runRet' = RetErr("Io", None) /\ UNCHANGED process
    /\ runPc' = "done"
    /\ UNCHANGED <<runArgs, waiting, polls, out, pid, app, lastPoll>>
    /\ UNCHANGED <<cfg, bpc, manifest, buildTargets, op, k, apk, key, ret>>
    /\ UNCHANGED captureVars

NextRun ==
    \/ FromSubcommand
    \/ \E artifact \in Artifacts, no_logcat \in BOOLEAN : Run(artifact, no_logcat)
    \/ RunBuild
    \/ CargoStep
    \/ AddLibs
    \/ SigningKey
    \/ Align
    \/ Sign
    \/ BuildFailed
    \/ ReversePortForward
    \/ Install
    \/ Start
    \/ AppUp
    \/ AppExit
    \/ WaitPoll
    \/ DecodePid
    \/ SpawnLogcat
    \/ MonitorPoll
    \/ Kill

(***************************************************************************)
(* Specifications                                                          *)
(***************************************************************************)
\* the builder before it is made: no action of NextBuilder is enabled
BuilderIdle ==
    /\ cfg = <<>>
    /\ bpc = "idle"
    /\ manifest = NoManifest
    /\ buildTargets = <<>>
    /\ op = NoOp
    /\ k = 0
    /\ apk = NoApk
    /\ key = None
    /\ events = <<>>
    /\ ret = NoRet

\* no output_error call in progress: no action of NextCapture is enabled
CaptureIdle ==
    /\ procData = [s \in Streams |-> <<>>]
    /\ exitPlan = 0
    /\ toWrite = [s \in Streams |-> <<>>]
    /\ pipe = [s \in Streams |-> <<>>]
    /\ rdOpen = [s \in Streams |-> TRUE]
    /\ procState = "unborn"
    /\ exitStatus = -1
    /\ rpc = [s \in Streams |-> "unborn"]
    /\ buf = [s \in Streams |-> <<>>]
    /\ mutex = "free"
    /\ output = <<>>
    /\ mpc = "idle"
    /\ waited = -1
    /\ result = NoResult

InitCapture == CaptureInit /\ BuilderIdle /\ RunIdle

\* output_error on one supervised process
SpecCapture == InitCapture /\ [][NextCapture]_vars

(***************************************************************************)
(* The inputs of a builder                                                 *)
(***************************************************************************)
\* [package.metadata.android] as parsed, before any defaulting
TomlManifest(package, label, min_sdk, target_sdk, debuggable, filters, exported, meta_data, version_name) ==
    [package |-> package, label |-> label, min_sdk_version |-> min_sdk,
     target_sdk_version |-> target_sdk, debuggable |-> debuggable,
     intent_filter |-> filters, exported |-> exported,
     meta_data |-> meta_data, version_name |-> version_name,
     version_code |-> None]

\* the environment: the two variables of the profile as given, those of the
\* other profiles set to values of their own
EnvOf(profile, path, password) ==
    [n \in EnvNames |->
        IF n = KeystoreEnv(profile.name) THEN path
        ELSE IF n = PasswordEnv(profile.name) THEN password
        ELSE IF n \in {KeystoreEnv(q.name) : q \in Profiles}
        THEN Some([abs |-> TRUE, comps |-> <<"other", "profile.jks">>])
        ELSE Some("other-profile-password")]

\* [package.metadata.android.signing.<profile>]: the entry of the profile
\* as given (None: no entry), the other profiles with entries of their own
SigningOf(profile, entry) ==
    [n \in {q.name : q \in Profiles \ {profile}} \cup
           (IF entry = None THEN {} ELSE {profile.name}) |->
        IF n = profile.name THEN Unwrap(entry)
        ELSE [path |-> [abs |-> FALSE, comps |-> <<"other.jks">>],
              keystore_password |-> "other-configured-password"]]

EnvKeystorePaths == {None, Some([abs |-> TRUE, comps |-> <<"env", "my.jks">>])}

EnvPasswords == {None, Some("hunter2")}

SigningEntries ==
    {None,
     Some([path |-> [abs |-> FALSE, comps |-> <<"keys", "cfg.jks">>],
           keystore_password |-> "configured"]),
     Some([path |-> [abs |-> TRUE, comps |-> <<"vault", "cfg.jks">>],
           keystore_password |-> "configured"])}

\* configured min_sdk_version values, around the floor of 23
MinSdkValues == {None, Some(19), Some(23), Some(30)}

TargetSdkValues == {None, Some(30), Some(31)}

NdkDefaultTargets == {30, 33}

CmdTargets == {None, Some("i686-linux-android")}

ValueVersion == [kind |-> "Value", value |-> "1.2.3", workspace |-> FALSE]

WorkspaceWith(version) ==
    Some([workspace |-> Some([package |-> Some([version |-> version])])])

\* package.version and the workspace manifest: the cases of lines 55-78
VersionCases ==
    {<<ValueVersion, None>>,
     <<[kind |-> "Value", value |-> "one", workspace |-> FALSE], None>>,
     <<[kind |-> "Inherited", value |-> "", workspace |-> FALSE], None>>,
     <<[kind |-> "Inherited", value |-> "", workspace |-> TRUE], None>>,
     <<[kind |-> "Inherited", value |-> "", workspace |-> TRUE],
       Some([workspace |-> None])>>,
     <<[kind |-> "Inherited", value |-> "", workspace |-> TRUE],
       Some([workspace |-> Some([package |-> None])])>>,
     <<[kind |-> "Inherited", value |-> "", workspace |-> TRUE], WorkspaceWith(None)>>,
     <<[kind |-> "Inherited", value |-> "", workspace |-> TRUE],
       WorkspaceWith(Some("2.0.0"))>>}

\* the first n targets of the enum, as build_targets of the manifest
DeclaredTargets(n) == SubSeq(AllTargets, 1, n)

\* a plain manifest: nothing set but the minimum platform version
PlainManifest(min_sdk) ==
    TomlManifest(<<>>, <<>>, min_sdk, None, None, <<>>, None, <<>>, None)

Config(profile, cmdTarget, path, password, entry, am, n, runtime_libs, vc, ndkDefault) ==
    [profile |-> profile, cmdTarget |-> cmdTarget,
     env |-> EnvOf(profile, path, password),
     signing |-> SigningOf(profile, entry),
     am |-> am, build_targets |-> DeclaredTargets(n),
     runtime_libs |-> runtime_libs,
     version |-> vc[1], workspace |-> vc[2], ndkDefault |-> ndkDefault]

\* a builder about to be made by from_subcommand
BuilderNew ==
    /\ bpc = "new"
    /\ manifest = NoManifest
    /\ buildTargets = <<>>
    /\ op = NoOp
    /\ k = 0
    /\ apk = NoApk
    /\ key = None
    /\ events = <<>>
    /\ ret = NoRet

\* builds over every profile, environment, signing table, minimum platform
\* version and target list, on a plain manifest; and every version case
InitBuild ==
    /\ \/ \E profile \in Profiles, cmdTarget \in CmdTargets,
             path \in EnvKeystorePaths, password \in EnvPasswords,
             entry \in SigningEntries, min_sdk \in MinSdkValues,
             n \in 0..MaxTargets, runtime_libs \in {None, Some("libs")} :
            cfg = Config(profile, cmdTarget, path, password, entry,
                         PlainManifest(min_sdk), n, runtime_libs,
                         <<ValueVersion, None>>, 33)
       \/ \E vc \in VersionCases :
            cfg = Config(ProfileDev, None, None, None, None,
                         PlainManifest(None), 0, None, vc, 33)
    /\ BuilderNew
    /\ CaptureIdle
    /\ RunIdle

\* from_subcommand, then one of check, default and build
SpecBuild == InitBuild /\ [][NextBuilder]_vars

\* builds over every manifest the defaulting steps tell apart
InitManifest ==
    /\ \E profile \in {ProfileDev, ProfileRelease},
          package \in {<<>>, <<"c", ".", "x">>}, label \in {<<>>, <<"X">>},
          target_sdk \in TargetSdkValues, debuggable \in {None, Some(TRUE), Some(FALSE)},
          intent_filter \in {<<>>, <<ViewFilter>>, <<ViewFilter, ViewAndMainFilter>>},
          exported \in {None, Some(TRUE), Some(FALSE)},
          meta_data \in {<<>>, <<[name |-> "user.key", value |-> <<"v">>]>>},
          version_name \in {None, Some("9.9.9")},
          ndkDefault \in NdkDefaultTargets :
        cfg = Config(profile, None, None, None, None,
                     TomlManifest(package, label, None, target_sdk, debuggable,
                                  intent_filter, exported, meta_data, version_name),
                     1, None, <<ValueVersion, None>>, ndkDefault)
    /\ BuilderNew
    /\ CaptureIdle
    /\ RunIdle

SpecManifest == InitManifest /\ [][NextBuilder]_vars

\* run on a builder of the dev profile with one declared target
InitRun ==
    /\ cfg = Config(ProfileDev, None, None, None, None, PlainManifest(None), 1,
                    None, <<ValueVersion, None>>, 33)
    /\ BuilderNew
    /\ CaptureIdle
    /\ RunIdle

\* from_subcommand, then run
SpecRun == InitRun /\ [][NextRun]_vars

\* builders over the templates a build completes: with or without a package
\* id, a label, a meta-data entry of the user's
InitRebuild ==
    /\ \E package \in {<<>>, <<"c", ".", "x">>}, label \in {<<>>, <<"X">>},
          meta_data \in {<<>>, <<[name |-> "user.key", value |-> <<"v">>]>>} :
        cfg = Config(ProfileDev, None, None, None, None,
                     TomlManifest(package, label, None, None, None, <<>>, None,
                                  meta_data, None),
                     1, None, <<ValueVersion, None>>, 33)
    /\ BuilderNew
    /\ CaptureIdle
    /\ RunIdle

\* from_subcommand, then build after build on the one builder
SpecRebuild == InitRebuild /\ [][NextRebuild]_vars

\* the same, with the main thread of run going on whenever it can: a sleep
\* ends, an adb command returns
FairRun ==
    /\ SpecRun
    /\ WF_vars(MonitorPoll)
    /\ WF_vars(Kill)

\* the same, with the scheduling the claim of termination assumes: the OS
\* runs the process and each of the three threads whenever it can take a step
FairCapture ==
    /\ SpecCapture
    /\ WF_vars(ProcStep)
    /\ \A s \in Streams : WF_vars(ReaderStep(s))
    /\ WF_vars(MainStep)

(***************************************************************************)
(* Properties of output_error                                              *)
(***************************************************************************)
\* the bytes of one stream that have reached the log, in log order
LoggedBytes(s) == ConcatChunks(OnlyStream(output, s))

\* the process ran to its end, exited 0, and no read of a pipe failed
CleanExitZero ==
    /\ procState = "exited"
    /\ exitStatus = 0
    /\ \A s \in Streams : rpc[s] = "ok"

\* C2: when the process has written its N bytes to standard output and its
\* M bytes to standard error and exited 0 (no read of a pipe having failed),
\* output_error returns Ok with exactly the N standard-output bytes, in the
\* order written, whatever the interleaving and the chunking.
C2_StdoutExact ==
    (mpc = "done" /\ CleanExitZero) => result = OkResult(procData["Stdout"])

\* C2 witness: a two-byte standard output returned intact although a chunk
\* of standard error reached the log first and lies between its chunks
C2_Witness ==
    /\ mpc = "done"
    /\ result = OkResult(<<111, 112>>)
    /\ Len(output) >= 3
    /\ output[1].stream = "Stderr"
    /\ output[Len(output)].stream = "Stdout"
    /\ \E i \in 1..Len(output) : output[i].stream = "Stdout" /\ Len(output[i].data) = 1

\* C3 (as claimed): on a non-zero exit the diagnostic text is the
\* concatenation of the chunks tagged standard-error only, in arrival order.
C3_DiagnosticStderrOnly ==
    result.kind = "CmdFailed" => result.text = FromUtf8Lossy(LoggedBytes("Stderr"))

\* the exit status has been or is about to be consulted
AtVerdict == mpc \in {"wait", "verdict"} \/ result.kind \in {"Ok", "CmdFailed"}

\* C4: the exit status is consulted and the result rebuilt from the log only
\* after both reader threads have ended and been joined, and from then on
\* the log is never appended to.
C4_JoinBeforeVerdict ==
    /\ [](AtVerdict => \A s \in Streams : rpc[s] = "ok")
    /\ [][AtVerdict => output' = output]_vars

\* C4 witness: the verdict is being computed over a log that holds chunks of
\* both streams
C4_Witness ==
    /\ mpc = "verdict"
    /\ \A s \in Streams : \E i \in 1..Len(output) : output[i].stream = s

\* C5: the log is appended to only by a reader that holds the mutex, one
\* chunk at a time, by at most one reader at a time; and for each stream
\* the logged bytes, the chunk in the reader's hand, the bytes in the pipe
\* and the bytes not yet written make up the stream in order (nothing lost,
\* duplicated or reordered) as long as no read of that stream failed.
C5_LogUnderMutex ==
    /\ [](\A s \in Streams :
            /\ rpc[s] = "push" => mutex = s
            /\ IsPrefix(LoggedBytes(s), procData[s])
            /\ rpc[s] # "err" =>
                  LoggedBytes(s) \o buf[s] \o pipe[s] \o toWrite[s] = procData[s])
    /\ [][output' # output =>
            \E s \in Streams :
                /\ mutex = s
                /\ rpc[s] = "push"
                /\ buf[s] # <<>>
                /\ output' = Append(output, [stream |-> s, data |-> buf[s]])]_vars

\* C5 witness: one reader holds the mutex with a chunk to push while the
\* other waits for the lock with a chunk of its own, the log already holding
\* chunks of both streams
C5_Witness ==
    /\ \E s \in Streams, t \in Streams :
          s # t /\ rpc[s] = "push" /\ rpc[t] = "lock" /\ mutex = s
    /\ \A s \in Streams : \E i \in 1..Len(output) : output[i].stream = s

\* C6: under fair scheduling output_error returns, however the process
\* spreads its writes over the two pipes and however often it blocks on a
\* full one.
C6_Returns == <>(mpc = "done")

\* C6 witness: output_error has returned a verdict for a process whose
\* payload on each stream was larger than a pipe holds
C6_Witness ==
    /\ mpc = "done"
    /\ result.kind \in {"Ok", "CmdFailed"}
    /\ \A s \in Streams : Len(procData[s]) > PipeCap

(***************************************************************************)
(* Properties of ApkBuilder                                                *)
(***************************************************************************)
\* the cargo commands run so far, and the add_lib_recursively calls made
CargoRuns == EventsOf("cargo")

LibCalls == EventsOf("add_lib_recursively")

\* C1: the targets are compiled one at a time in the order of the (never
\* empty) list, the libraries of a target are added before the next target
\* is compiled, and a cargo command that fails is the last thing the
\* operation does: nothing is compiled or added for a later target and the
\* operation returns that command's failure.  So for build, check and default.
C1_SequentialAbort ==
    /\ [](/\ bpc \in {"ready", "compile", "libs"} => buildTargets # <<>>
          /\ Len(CargoRuns) <= Len(buildTargets)
          /\ \A i \in 1..Len(CargoRuns) :
                /\ CargoRuns[i].command.target = buildTargets[i]
                /\ CargoRuns[i].command.subcmd = op.name
          /\ Len(LibCalls) <= Len(CargoRuns)
          /\ \A i \in 1..Len(LibCalls) : LibCalls[i].target = buildTargets[i]
          /\ IF op.name = "build"
             THEN Len(CargoRuns) <= Len(LibCalls) + 1
             ELSE LibCalls = <<>>
          /\ \A i \in 1..Len(events) :
                (events[i].ev = "cargo" /\ events[i].outcome # "Ok") =>
                    /\ i = Len(events)
                    /\ bpc = "done"
                    /\ ret = RetErr(events[i].outcome, Some(events[i].command)))
    /\ [][ret # NoRet => events' = events]_vars

\* C1 witness: a build over two targets whose first cargo command failed:
\* one command was run, no library was added, the failure was returned
C1_Witness ==
    /\ op.name = "build"
    /\ Len(buildTargets) = 2
    /\ ret.error = "CmdFailed"
    /\ Len(CargoRuns) = 1
    /\ CargoRuns[1].command.target = buildTargets[1]
    /\ LibCalls = <<>>

\* C9: every cargo command is given a minimum platform version of at least
\* 23: the configured value if it is 23 or more, else 23.
C9_MinSdkFloor ==
    \A i \in 1..Len(CargoRuns) :
        LET given == CargoRuns[i].command.min_sdk_version
            configured == cfg.am.min_sdk_version
        IN /\ given >= 23
           /\ configured # None =>
                given = (IF Unwrap(configured) < 23 THEN 23 ELSE Unwrap(configured))

\* C9 witness: with 19 configured, two cargo commands were run with 23
C9_Witness ==
    /\ cfg.am.min_sdk_version = Some(19)
    /\ Len(CargoRuns) = 2
    /\ \A i \in 1..2 : CargoRuns[i].command.min_sdk_version = 23

\* what the key step of a build was given
EnvPath == cfg.env[KeystoreEnv(ProfileName(cfg.profile))]

EnvPassword == cfg.env[PasswordEnv(ProfileName(cfg.profile))]

HasEntry == ProfileName(cfg.profile) \in DOMAIN cfg.signing

IsDev == cfg.profile.tag = "Dev"

Entry == cfg.signing[ProfileName(cfg.profile)]

\* the build has been through the resolution of its signing key
KeyStepDone ==
    /\ op.name = "build"
    /\ \/ key # None
       \/ ret.error \in {"MissingReleaseKey", "DebugKeyError"}

\* the outcomes of the key step
GaveKey(path, password) == key = Some([path |-> path, password |-> password])

GaveMissingReleaseKey ==
    /\ key = None
    /\ ret = RetErr("MissingReleaseKey", Some(ProfileName(cfg.profile)))

GaveDebugKeyError == key = None /\ ret = RetErr("DebugKeyError", None)

Warnings == EventsOf("eprintln")

FallbackWarning ==
    [ev |-> "eprintln",
     line |-> "password_env not specified, falling back to default password"]

\* C7 (as claimed): the first-match table, rows 4 and 5 asking for neither
\* variable to be set, every other combination ending in MissingReleaseKey.
C7_TableAsClaimed ==
    KeyStepDone =>
        CASE EnvPath # None /\ EnvPassword # None ->
               GaveKey(Unwrap(EnvPath), Unwrap(EnvPassword))
          [] EnvPath # None /\ EnvPassword = None /\ IsDev ->
               /\ GaveKey(Unwrap(EnvPath), DEFAULT_DEV_KEYSTORE_PASSWORD)
               /\ Warnings = <<FallbackWarning>>
          [] EnvPath # None /\ EnvPassword = None /\ ~IsDev -> GaveMissingReleaseKey
          [] EnvPath = None /\ EnvPassword = None /\ HasEntry ->
               GaveKey(PathJoin(CratePath, Entry.path), Entry.keystore_password)
          [] EnvPath = None /\ EnvPassword = None /\ ~HasEntry /\ IsDev ->
               key = Some(DebugKey) \/ GaveDebugKeyError
          [] OTHER -> GaveMissingReleaseKey

\* C7 (amended): the first-match table with rows 4 to 6 decided by the path
\* variable being unset, whatever the password variable is: both set gives
\* the environment's path and password as they are, entry or no entry; path
\* only gives, for dev, the path with the default development password and
\* a warning and, for another profile, MissingReleaseKey naming the profile;
\* no path with a configured entry gives the entry's path joined to the
\* manifest directory with the configured password; no path, no entry, dev
\* gives the answer of the debug-key provider (its key, or its error);
\* no path, no entry, another profile gives MissingReleaseKey naming it.
C7_Table ==
    KeyStepDone =>
        CASE EnvPath # None /\ EnvPassword # None ->
               /\ GaveKey(Unwrap(EnvPath), Unwrap(EnvPassword))
               /\ Warnings = <<>>
          [] EnvPath # None /\ EnvPassword = None /\ IsDev ->
               /\ GaveKey(Unwrap(EnvPath), DEFAULT_DEV_KEYSTORE_PASSWORD)
               /\ Warnings = <<FallbackWarning>>
          [] EnvPath # None /\ EnvPassword = None /\ ~IsDev -> GaveMissingReleaseKey
          [] EnvPath = None /\ HasEntry ->
               /\ GaveKey(PathJoin(CratePath, Entry.path), Entry.keystore_password)
               /\ Warnings = <<>>
          [] EnvPath = None /\ ~HasEntry /\ IsDev ->
               key = Some(DebugKey) \/ GaveDebugKeyError
          [] OTHER -> GaveMissingReleaseKey

\* C7 witness: both variables set and an entry configured, for the release
\* profile: the build went on with the key of the environment
C7_Witness ==
    /\ KeyStepDone
    /\ cfg.profile = ProfileRelease
    /\ EnvPath # None /\ EnvPassword # None /\ HasEntry
    /\ key = Some([path |-> Unwrap(EnvPath), password |-> "hunter2"])
    /\ bpc = "align"

\* the key of a profile other than dev is the environment's pair as it is,
\* or the configured entry: never completed with the default development
\* password, never the debug-key provider's
NonDevKeyIsGiven ==
    (~IsDev /\ key # None) =>
        \/ /\ EnvPath # None /\ EnvPassword # None
           /\ GaveKey(Unwrap(EnvPath), Unwrap(EnvPassword))
        \/ /\ EnvPath = None /\ HasEntry
           /\ GaveKey(PathJoin(CratePath, Entry.path), Entry.keystore_password)

\* C8 (as claimed): every combination of inputs yields a key with path and
\* password or MissingReleaseKey naming the profile, and no profile other
\* than dev gets the default password as a fallback or the debug key.
C8_TotalAsClaimed ==
    KeyStepDone =>
        /\ \/ key # None /\ DOMAIN Unwrap(key) = {"path", "password"}
           \/ GaveMissingReleaseKey
        /\ NonDevKeyIsGiven

\* C8 (amended): every combination of inputs, the one with only the
\* password variable set included, yields a key with path and password, or
\* MissingReleaseKey naming the profile, or - for the dev profile with no
\* path variable and no configured entry only - the error of the debug-key
\* provider; and no profile other than dev gets the default password as a
\* fallback or the debug key.
C8_Total ==
    KeyStepDone =>
        /\ \/ key # None /\ DOMAIN Unwrap(key) = {"path", "password"}
           \/ GaveMissingReleaseKey
           \/ GaveDebugKeyError /\ IsDev /\ EnvPath = None /\ ~HasEntry
        /\ NonDevKeyIsGiven

\* C8 witness: the release profile with only the password variable set and
\* no configured entry: MissingReleaseKey naming "release"
C8_Witness ==
    /\ KeyStepDone
    /\ cfg.profile = ProfileRelease
    /\ EnvPath = None /\ EnvPassword # None /\ ~HasEntry
    /\ ret = RetErr("MissingReleaseKey", Some("release"))

\* the listed defaulting steps, applied once more to a descriptor
Redefaulted(m, ndkDefault, profile, artifact) ==
    ArtifactDefaults(TemplateDefaults(m, ndkDefault, profile), artifact)

\* from_subcommand has made the builder
Constructed == manifest.version_name # None

\* C10: the defaulting steps (target platform version, debuggable, main
\* intent filter, exported flag, package id, label), applied again to a
\* defaulted descriptor, with any NDK default, profile and artifact, leave
\* it as it is; and the defaulted descriptor holds every value the user gave.
C10_Idempotent ==
    /\ Constructed =>
         /\ \A nd \in NdkDefaultTargets, p \in Profiles :
               TemplateDefaults(manifest, nd, p) = manifest
         /\ cfg.am.target_sdk_version # None =>
               manifest.target_sdk_version = cfg.am.target_sdk_version
         /\ cfg.am.debuggable # None => manifest.debuggable = cfg.am.debuggable
         /\ cfg.am.exported # None => manifest.exported = cfg.am.exported
         /\ IsPrefix(cfg.am.intent_filter, manifest.intent_filter)
    /\ apk.manifest # None =>
         LET m == Unwrap(apk.manifest)
         IN /\ \A nd \in NdkDefaultTargets, p \in Profiles, a \in Artifacts :
                  Redefaulted(m, nd, p, a) = m
            /\ cfg.am.package # <<>> => m.package = cfg.am.package
            /\ cfg.am.label # <<>> => m.label = cfg.am.label
            /\ m.target_sdk_version = manifest.target_sdk_version
            /\ m.debuggable = manifest.debuggable
            /\ m.exported = manifest.exported
            /\ m.intent_filter = manifest.intent_filter

\* C10 witness: a descriptor handed to create_apk in which the target
\* platform version, the main intent filter, the exported flag, the package
\* id and the label were all defaulted, beside a filter of the user's
C10_Witness ==
    /\ apk.manifest # None
    /\ cfg.am.package = <<>> /\ cfg.am.label = <<>>
    /\ cfg.am.target_sdk_version = None /\ cfg.am.exported = None
    /\ cfg.am.intent_filter = <<ViewFilter>>
    /\ Unwrap(apk.manifest).intent_filter = <<ViewFilter, MainFilter>>
    /\ Unwrap(apk.manifest).exported = Some(TRUE)
    /\ Unwrap(apk.manifest).package = <<"r", "u", "s", "t", ".", "a", "_", "b">>
    /\ Unwrap(apk.manifest).label = <<"a", "-", "b">>

\* the target platform version the defaulting resolved
ResolvedTargetSdk == Unwrap(manifest.target_sdk_version)

\* the exported flag of a descriptor is what the rule of line 129 makes of
\* the declared one
ExportedAsRuled(m) ==
    /\ cfg.am.exported # None => m.exported = cfg.am.exported
    /\ (cfg.am.exported = None /\ ResolvedTargetSdk >= 31) => m.exported = Some(TRUE)
    /\ (cfg.am.exported = None /\ ResolvedTargetSdk < 31) => m.exported = None

\* C11: after defaulting, with the target platform version resolved (the
\* declared one, else the NDK's default), an undeclared exported flag is
\* true if that version is 31 or more and stays unset if it is less; a
\* declared flag, true or false, is kept at every version.  So in the
\* template and in the descriptor of every artifact, whatever the other
\* fields are.
C11_ExportDefaulting ==
    /\ Constructed =>
         /\ ResolvedTargetSdk = UnwrapOr(cfg.am.target_sdk_version, cfg.ndkDefault)
         /\ ExportedAsRuled(manifest)
    /\ apk.manifest # None => ExportedAsRuled(Unwrap(apk.manifest))

\* C11 witness: no target version and no exported flag declared, an NDK
\* default of 33, a filter and a debuggable flag of the user's: the
\* descriptor handed to create_apk is exported
C11_Witness ==
    /\ apk.manifest # None
    /\ cfg.am.exported = None /\ cfg.am.target_sdk_version = None
    /\ cfg.ndkDefault = 33
    /\ cfg.am.debuggable = Some(FALSE) /\ cfg.am.intent_filter = <<ViewFilter>>
    /\ Unwrap(apk.manifest).exported = Some(TRUE)

\* C12 (as claimed): every descriptor handed to the packaging collaborator
\* has a package id, a label, a minimum platform version and a target
\* platform version.
C12_AllPresent ==
    \A i \in 1..Len(EventsOf("create_apk")) :
        LET m == EventsOf("create_apk")[i].manifest
        IN /\ m.package # <<>>
           /\ m.label # <<>>
           /\ m.min_sdk_version # None
           /\ m.target_sdk_version # None

\* every configured target has compiled and had its libraries added
AllTargetsIn ==
    /\ Len(CargoRuns) = Len(buildTargets)
    /\ \A i \in 1..Len(CargoRuns) :
          CargoRuns[i].outcome = "Ok" /\ CargoRuns[i].command.target = buildTargets[i]
    /\ [i \in 1..Len(LibCalls) |-> LibCalls[i].target] = buildTargets
    /\ cfg.runtime_libs # None =>
          [i \in 1..Len(EventsOf("add_runtime_libs")) |->
              EventsOf("add_runtime_libs")[i].target] = buildTargets
    /\ apk.libs = buildTargets

\* the failures of a build ahead of the finalization
FailedBeforeAlign ==
    \/ ret.error \in {"CmdFailed", "Io", "MissingReleaseKey", "DebugKeyError"}
    \/ /\ ret.error = "NdkError"
       /\ ret.detail \in {Some("NoSearchPaths"), Some("AddLibFailed"),
                           Some("RuntimeLibsFailed")}

\* C18: a build finalizes the package at most once, and only when every
\* configured target has compiled successfully and had its libraries added
\* and a signing key is resolved; it signs at most once, only the finalized
\* package and with the resolved key; after a compile failure, a
\* library-resolution failure or a missing key neither was invoked; and the
\* caller gets a signed package only with Ok, an error otherwise.
C18_NoPartialPackage ==
    /\ Len(EventsOf("add_pending_libs_and_align")) <= 1 /\ Len(EventsOf("sign")) <= 1
    /\ EventsOf("add_pending_libs_and_align") # <<>> =>
          (op.name = "build" /\ AllTargetsIn /\ key # None)
    /\ EventsOf("sign") # <<>> =>
          /\ EventsOf("add_pending_libs_and_align") # <<>>
          /\ apk.unsigned
          /\ EventsOf("sign")[1].key = Unwrap(key)
    /\ FailedBeforeAlign =>
          (EventsOf("add_pending_libs_and_align") = <<>> /\ EventsOf("sign") = <<>>)
    /\ ret.kind = "Err" => apk.signed = None
    /\ apk.signed # None => (ret = RetOk /\ EventsOf("sign") # <<>> /\ apk.signed = key)
    /\ (op.name = "build" /\ ret = RetOk) => apk.signed # None

\* C18 witness: a build over two targets whose second target's libraries
\* could not be added: two commands compiled, nothing finalized or signed
C18_Witness ==
    /\ op.name = "build"
    /\ Len(buildTargets) = 2
    /\ Len(CargoRuns) = 2
    /\ ret = RetErr("NdkError", Some("AddLibFailed"))
    /\ apk.libs = <<buildTargets[1]>>
    /\ EventsOf("add_pending_libs_and_align") = <<>> /\ EventsOf("sign") = <<>>

\* the errors from_subcommand reports for the configuration it was given
ConfigErrors ==
    {"InheritedFalse", "InheritanceMissingWorkspace",
     "WorkspaceMissingInheritedField(package)",
     "WorkspaceMissingInheritedField(package.version)"}

\* C19 (as claimed): when from_subcommand reports a configuration error, no
\* external process has been run: no device ABI query, no cargo command.
C19_ConfigErrorFirst ==
    ret.error \in ConfigErrors =>
        (EventsOf("detect_abi") = <<>> /\ CargoRuns = <<>>)

(***************************************************************************)
(* Properties of ApkBuilder::run                                           *)
(***************************************************************************)
\* the "waiting" notices printed
Notices == SelectSeq(events, LAMBDA e : e = WaitingNotice)

\* every event of kind a lies before every event of kind b
Before(a, b) ==
    \A i \in 1..Len(events), j \in 1..Len(events) :
        (events[i].ev = a /\ events[j].ev = b) => i < j

\* C13 (as claimed): once a process-id poll has succeeded, exactly one
\* "waiting" notice has been printed.
C13_OneNoticeAsClaimed == out # None => Len(Notices) = 1

\* C13 (amended): the first loop is left for the attached phase only by a
\* poll that succeeded, so with no successful poll no logcat child is ever
\* spawned; and when the poll first succeeds on the k-th attempt, one notice
\* has been printed if k >= 2 and none if k = 1: the notice is printed on
\* the first poll that finds nothing and on no later one.
C13_NoticeOnce ==
    /\ [](/\ out = None =>
               /\ runPc \notin {"decode", "spawn", "monitor", "kill", "exited"}
               /\ process = "none"
               /\ EventsOf("logcat") = <<>>
          /\ process # "none" => out # None
          /\ Len(Notices) = (IF polls.failed >= 1 THEN 1 ELSE 0)
          /\ waiting = (polls.failed >= 1)
          /\ (out # None /\ polls.made < MaxPolls) => polls.failed = polls.made - 1)
    /\ [][Notices' # Notices =>
            /\ lastPoll' = Polled("wait", "NotFound")
            /\ polls.failed = 0
            /\ polls'.failed = 1]_vars

\* C13 witness: the poll first succeeded on the third attempt; one notice
\* was printed and the logcat child is running
C13_Witness ==
    /\ out # None
    /\ polls.failed = 2
    /\ Len(Notices) = 1
    /\ process = "running"

\* C14 (as claimed): the logcat child is killed only after a poll of the
\* second loop found the app absent or failed, and run does not return,
\* with Ok or with an error, while the child it spawned is not killed.
C14_TerminateSoleExit ==
    /\ process = "killed" =>
          (lastPoll.phase = "monitor" /\ lastPoll.outcome \in {"NotFound", "ExecFailed"})
    /\ runRet # NoRet => process # "running"

\* C15 (as claimed): with the logcat child attached, if the app's process
\* goes away for good, the second loop sees it, the child is killed and run
\* returns; and the loop is left only by a poll that did not report the
\* process alive.
C15_MonitorLiveness ==
    /\ (<>[](app = "absent")) =>
          [](process = "running" =>
                <>(/\ lastPoll.phase = "monitor"
                   /\ lastPoll.outcome \in {"NotFound", "ExecFailed"}
                   /\ process = "killed"
                   /\ runRet # NoRet))
    /\ [][(runPc = "monitor" /\ runPc' # "monitor") => lastPoll'.outcome # "Found"]_vars

\* C16: install is attempted only on the package build returned, launch only
\* after install succeeded, a poll only after launch succeeded, and the
\* logcat child is spawned only after install, launch and a poll succeeded,
\* in that order; a failed install or launch is the last thing run does and
\* run returns an error; with no_logcat there is no poll, no notice and no
\* logcat child.
C16_LifecycleOrder ==
    /\ Len(EventsOf("install")) <= 1 /\ Len(EventsOf("start")) <= 1 /\ Len(EventsOf("logcat")) <= 1
    /\ EventsOf("install") # <<>> => apk.signed # None
    /\ EventsOf("start") # <<>> =>
          (EventsOf("install") = <<DeviceCall("install", TRUE)>> /\ Before("install", "start"))
    /\ lastPoll # NoPoll => EventsOf("start") = <<DeviceCall("start", TRUE)>>
    /\ (EventsOf("logcat") # <<>> \/ process # "none") =>
          /\ EventsOf("install") = <<DeviceCall("install", TRUE)>>
          /\ EventsOf("start") = <<DeviceCall("start", TRUE)>>
          /\ out # None
          /\ Before("start", "logcat")
    /\ \A call \in {"install", "start"} :
          DeviceCall(call, FALSE) \in {events[i] : i \in 1..Len(events)} =>
              /\ events[Len(events)] = DeviceCall(call, FALSE)
              /\ runPc = "done"
              /\ runRet.kind = "Err"
              /\ lastPoll = NoPoll
              /\ process = "none"
    /\ (runArgs # None /\ Unwrap(runArgs).no_logcat) =>
          /\ lastPoll = NoPoll
          /\ polls = [made |-> 0, failed |-> 0]
          /\ EventsOf("eprintln") = <<>>
          /\ EventsOf("logcat") = <<>>
          /\ process = "none"

\* C16 witness: the logcat child was spawned after install, launch and a
\* poll that found the app
C16_Witness ==
    /\ process = "running"
    /\ EventsOf("logcat") # <<>>
    /\ EventsOf("install") = <<DeviceCall("install", TRUE)>>
    /\ EventsOf("start") = <<DeviceCall("start", TRUE)>>
    /\ lastPoll.phase = "monitor" /\ lastPoll.outcome = "Found"

\* the poll that succeeded left bytes String::from_utf8 rejects
Undecodable == out # None /\ FromUtf8(Unwrap(out)) = None

C20_PollPolicy ==
    /\ (lastPoll.phase = "wait" /\ lastPoll.outcome = "NotFound") =>
          (runPc = "wait" /\ runRet = NoRet)
    /\ (lastPoll.phase = "wait" /\ lastPoll.outcome \in {"NoCommand", "ExecFailed"}) =>
          /\ runPc = "done"
          /\ runRet.kind = "Err"
          /\ process = "none"
          /\ EventsOf("logcat") = <<>>
    /\ (/\ lastPoll.phase = "monitor"
        /\ lastPoll.outcome \in {"NoCommand", "ExecFailed", "NotFound"}) =>
          (runPc = "kill" \/ EventsOf("kill") # <<>>)

(***************************************************************************)
(* Properties of repeated builds                                           *)
(***************************************************************************)
\* C21: every build hands create_apk a copy of the builder's descriptor
\* that differs from it in three places only: the package id and the label,
\* defaulted from this build's artifact where the template leaves them
\* empty, and the meta-data, which is the template's followed by exactly one
\* android.app.lib_name entry, the artifact's name with '-' replaced by
\* '_'.  The builder's descriptor never changes once it is made, so no
\* build sees an entry, a package id or a label of an earlier build.
C21_PerArtifactCopy ==
    /\ [](op.name = "build" =>
            LET handed == EventsOf("create_apk")
                m == handed[Len(handed)].manifest
                artifact == Unwrap(op.artifact)
                lib_name == [name |-> "android.app.lib_name",
                             value |-> ReplaceHyphens(artifact.name)]
            IN /\ m.meta_data = Append(manifest.meta_data, lib_name)
               /\ m.meta_data = Append(cfg.am.meta_data, lib_name)
               /\ m.package = (IF cfg.am.package = <<>>
                               THEN DefaultPackageName(artifact)
                               ELSE cfg.am.package)
               /\ m.label = (IF cfg.am.label = <<>> THEN artifact.name ELSE cfg.am.label)
               /\ [m EXCEPT !.meta_data = manifest.meta_data,
                            !.package = manifest.package,
                            !.label = manifest.label] = manifest)
    /\ [](Constructed =>
            /\ manifest.package = cfg.am.package
            /\ manifest.label = cfg.am.label
            /\ manifest.meta_data = cfg.am.meta_data)
    /\ [][Constructed => manifest' = manifest]_vars

\* C21 witness: two builds on one builder, of an example "a-b" and then of
\* a binary "g", on a template with an entry of the user's and no package
\* id or label: the second descriptor has the user's entry and the lib_name
\* entry of "g" alone, and the package id and label of "g"
C21_Witness ==
    /\ Len(EventsOf("create_apk")) = 2
    /\ cfg.am.package = <<>> /\ cfg.am.label = <<>>
    /\ Len(cfg.am.meta_data) = 1
    /\ EventsOf("create_apk")[1].manifest.package =
          <<"r", "u", "s", "t", ".", "e", "x", "a", "m", "p", "l", "e", ".", "a", "_", "b">>
    /\ EventsOf("create_apk")[2].manifest.package = <<"r", "u", "s", "t", ".", "g">>
    /\ EventsOf("create_apk")[2].manifest.label = <<"g">>
    /\ Len(EventsOf("create_apk")[2].manifest.meta_data) = 2
    /\ EventsOf("create_apk")[2].manifest.meta_data[2].value = <<"g">>

=============================================================================
